---------------------------- MODULE Spec2Model ----------------------------
(***************************************************************************)
(* Parking-lot session registry of cu.py: the menu loop, entry and exit    *)
(* registration, the fee computation done at exit, and the JSON file that  *)
(* keeps the registry across restarts.                                     *)
(*                                                                         *)
(* Strings are sequences of characters, a datetime is a record             *)
(* [seg, us] (whole seconds on the local time line, microseconds), a       *)
(* timedelta is the same record normalised as Python does (0 <= us < 10^6),*)
(* a dict is a set of <<key, value>> pairs kept single-valued by the dict  *)
(* operations, and the text isoformat() writes is the tuple of its fields. *)
(***************************************************************************)
EXTENDS Integers, Sequences, FiniteSets, TLC

VARIABLES
    pc,              \* position of the process in main / the called function
    motivo,          \* why the process is not running: exception type, or pc at the kill
    vagas,           \* main's dict vagas: set of <<placa, datetime>>
    arquivo,         \* estacionamento_dados.json: [kind, data]
    contagem,        \* len(vagas) printed at startup (line 114)
    msg,             \* last message printed by the current / last operation
    digitado,        \* raw text typed at the plate prompt, until it is checked
    placa,           \* local placa (normalised input)
    hora_entrada,    \* local hora_entrada of registrar_saida
    hora_saida,      \* local hora_saida
    duracao,         \* local duracao (timedelta)
    horas_cobradas,  \* local horas_cobradas
    valor_a_pagar,   \* local valor_a_pagar
    opcao,           \* main's local opcao: the text typed at the menu prompt
    registrado       \* history: the entry time recorded for each open session

vars == <<pc, motivo, vagas, arquivo, contagem, msg, digitado, placa,
          hora_entrada, hora_saida, duracao, horas_cobradas, valor_a_pagar,
          opcao, registrado>>

locais == <<digitado, placa, hora_entrada, hora_saida, duracao,
            horas_cobradas, valor_a_pagar>>

---------------------------------------------------------------------------
(* Bounds of the model *)

\* longest text typed at a prompt
MaxLen == 2
\* most sessions the lot is filled with (the code has no capacity limit)
MaxVagas == 2
\* most records of the file found at the first start
MaxRegistros == 1

---------------------------------------------------------------------------
(* Program constants *)

PRECO_POR_HORA == 5
SegundosPorHora == 3600
SegundosPorDia == 86400
UsPorSegundo == 1000000

---------------------------------------------------------------------------
(* Strings *)

Chars == {"a", "A", " "}

Textos == UNION {[1..n -> Chars] : n \in 0..MaxLen}

\* str.upper() on one character
Maiuscula(c) == IF c = "a" THEN "A" ELSE c

\* str.upper()
upper(s) == [i \in 1..Len(s) |-> Maiuscula(s[i])]

\* str.strip(): drops the leading and the trailing whitespace
RECURSIVE lstrip(_)
lstrip(s) == IF s # <<>> /\ Head(s) = " " THEN lstrip(Tail(s)) ELSE s

RECURSIVE rstrip(_)
rstrip(s) == IF s # <<>> /\ s[Len(s)] = " "
             THEN rstrip(SubSeq(s, 1, Len(s) - 1)) ELSE s

strip(s) == rstrip(lstrip(s))

\* variant: the surrounding whitespace is kept
Normalizar_sem_strip(s) == upper(s)

\* input(...).upper().strip()
Normalizar(s) == strip(upper(s))

---------------------------------------------------------------------------
(* Time *)

SemHora == [seg |-> -1, us |-> 0]

\* readings datetime.now() can give: 10:00:00, 11:00:00, 11:00:00.000001,
\* 11:00:01 and 12:15:00 of day 0.  The local clock is not monotonic.
Leituras ==
    { [seg |-> 10 * SegundosPorHora,      us |-> 0],
      [seg |-> 11 * SegundosPorHora,      us |-> 0],
      [seg |-> 11 * SegundosPorHora,      us |-> 1],
      [seg |-> 11 * SegundosPorHora + 1,  us |-> 0],
      [seg |-> 12 * SegundosPorHora + 900, us |-> 0] }

\* datetime - datetime: a timedelta with 0 <= us < 10^6
Subtrair(a, b) ==
    IF a.us - b.us < 0
    THEN [seg |-> a.seg - b.seg - 1, us |-> a.us - b.us + UsPorSegundo]
    ELSE [seg |-> a.seg - b.seg,     us |-> a.us - b.us]

\* variant: the hours are rounded down
TetoHoras_piso(d) == d.seg \div SegundosPorHora

\* math.ceil(duracao.total_seconds() / 3600)
TetoHoras(d) ==
    (d.seg \div SegundosPorHora)
      + (IF d.seg % SegundosPorHora # 0 \/ d.us # 0 THEN 1 ELSE 0)

\* lines 89-91: horas_cobradas
HorasCobradas(d) == IF TetoHoras(d) = 0 THEN 1 ELSE TetoHoras(d)

\* variant: the rate is added instead of multiplied
ValorAPagar_soma(h) == h + PRECO_POR_HORA

\* line 92: valor_a_pagar
ValorAPagar(h) == h * PRECO_POR_HORA

\* variant: the text is cut at the seconds
isoformat_sem_us(t) ==
    LET d == t.seg \div SegundosPorDia
        r == t.seg % SegundosPorDia
    IN  << d, r \div SegundosPorHora, (r % SegundosPorHora) \div 60, r % 60 >>

\* datetime.isoformat(): <<day, hour, minute, second>>, with the microseconds
\* appended only when they are not zero
isoformat(t) ==
    LET d == t.seg \div SegundosPorDia
        r == t.seg % SegundosPorDia
        base == << d, r \div SegundosPorHora,
                   (r % SegundosPorHora) \div 60, r % 60 >>
    IN  IF t.us = 0 THEN base ELSE Append(base, t.us)

\* whether datetime.fromisoformat accepts the text
IsoValido(x) ==
    /\ Len(x) \in {4, 5}
    /\ x[1] >= 0
    /\ x[2] \in 0..23
    /\ x[3] \in 0..59
    /\ x[4] \in 0..59
    /\ Len(x) = 5 => x[5] \in 0..(UsPorSegundo - 1)

\* variant: the microseconds of the text are not read
fromisoformat_sem_us(x) ==
    [seg |-> x[1] * SegundosPorDia + x[2] * SegundosPorHora + x[3] * 60 + x[4],
     us  |-> 0]

\* datetime.fromisoformat() of an accepted text
fromisoformat(x) ==
    [seg |-> x[1] * SegundosPorDia + x[2] * SegundosPorHora + x[3] * 60 + x[4],
     us  |-> IF Len(x) = 5 THEN x[5] ELSE 0]

\* a text fromisoformat rejects with ValueError (hour 25)
IsoInvalido == <<0, 25, 0, 0>>

---------------------------------------------------------------------------
(* dict *)

Chaves(d) == {p[1] : p \in d}

\* variant: the membership test is lost
Contem_nunca(d, k) == FALSE

\* k in d
Contem(d, k) == k \in Chaves(d)

\* d[k]
Valor(d, k) == (CHOOSE p \in d : p[1] = k)[2]

\* d[k] = v
DictSet(d, k, v) == {p \in d : p[1] # k} \cup {<<k, v>>}

\* d without k, after d.pop(k)
DictPop(d, k) == {p \in d : p[1] # k}

UmaPorChave(d) == \A p, q \in d : p[1] = q[1] => p = q

---------------------------------------------------------------------------
(* The data file *)

Ausente == [kind |-> "absent", data |-> {}]
\* the file right after open(..., 'w')
Vazio == [kind |-> "empty", data |-> {}]
\* a proper prefix of what json.dump writes
Parcial == [kind |-> "partial", data |-> {}]
\* text that is not JSON, found at the first start
Malformado == [kind |-> "malformed", data |-> {}]
\* JSON that is not an object (a list, a number)
NaoObjeto == [kind |-> "nonmap", data |-> {}]
\* a JSON object of strings
Objeto(d) == [kind |-> "map", data |-> d]

\* lines 38-40: dados_para_salvar
dados_para_salvar(v) == {<<p[1], isoformat(p[2])>> : p \in v}

\* lines 21-23: vagas_convertidas
vagas_convertidas(d) == {<<p[1], fromisoformat(p[2])>> : p \in d}

\* the exception carregar_dados lets through for the file, or "none"
ErroDeCarga(f) ==
    CASE f.kind = "nonmap" -> "AttributeError@carregar_dados"
      [] f.kind = "map" /\ \E p \in f.data : ~IsoValido(p[2])
             -> "ValueError@carregar_dados"
      [] OTHER -> "none"

\* what carregar_dados returns for a file it does not raise on
carregar_dados(f) ==
    IF f.kind = "map" THEN vagas_convertidas(f.data) ELSE {}

\* the message carregar_dados prints
MsgDeCarga(f) ==
    CASE f.kind = "map" -> "carregados"
      [] f.kind = "absent" -> "nenhum_arquivo"
      [] OTHER -> "erro_ao_ler"

\* files found at the first start
ChavesIniciais == {<<"A">>, <<"a">>, <<" ", "A">>}
ValoresIniciais ==
    {isoformat(t) : t \in {r \in Leituras : r.seg <= 11 * SegundosPorHora}}
        \cup {IsoInvalido}
ArquivosIniciais ==
    {Ausente, Malformado, NaoObjeto}
      \cup {Objeto(d) : d \in {x \in SUBSET (ChavesIniciais \X ValoresIniciais) :
                                  /\ Cardinality(x) <= MaxRegistros
                                  /\ UmaPorChave(x)}}

---------------------------------------------------------------------------
(* Initial state: the process has not been started *)

LocaisLimpos ==
    /\ digitado = <<>>
    /\ placa = <<>>
    /\ hora_entrada = SemHora
    /\ hora_saida = SemHora
    /\ duracao = [seg |-> 0, us |-> 0]
    /\ horas_cobradas = 0
    /\ valor_a_pagar = 0

LimparLocais ==
    /\ digitado' = <<>>
    /\ placa' = <<>>
    /\ hora_entrada' = SemHora
    /\ hora_saida' = SemHora
    /\ duracao' = [seg |-> 0, us |-> 0]
    /\ horas_cobradas' = 0
    /\ valor_a_pagar' = 0

Init ==
    /\ pc = "off"
    /\ motivo = "none"
    /\ vagas = {}
    /\ arquivo \in ArquivosIniciais
    /\ contagem = 0
    /\ msg = "none"
    /\ LocaisLimpos
    /\ opcao = <<>>
    /\ registrado = IF ErroDeCarga(arquivo) = "none"
                    THEN carregar_dados(arquivo) ELSE {}

Parado == pc \in {"off", "done", "uncaught", "killed"}

---------------------------------------------------------------------------
(* main, lines 109-114: start of the process and carregar_dados *)

Main_carregar ==
    /\ Parado
    /\ ErroDeCarga(arquivo) = "none"
    /\ pc' = "loop"
    /\ motivo' = "none"
    /\ vagas' = carregar_dados(arquivo)
    /\ contagem' = Cardinality(carregar_dados(arquivo))
    /\ msg' = MsgDeCarga(arquivo)
    /\ LimparLocais
    /\ UNCHANGED arquivo
    /\ opcao' = <<>>
    /\ registrado' = carregar_dados(arquivo)

\* json.load gives no dict, or fromisoformat rejects a value: not caught
Main_carregar_excecao ==
    /\ Parado
    /\ ErroDeCarga(arquivo) # "none"
    /\ pc' = "uncaught"
    /\ motivo' = ErroDeCarga(arquivo)
    /\ vagas' = {}
    /\ msg' = "traceback"
    /\ LimparLocais
    /\ UNCHANGED <<arquivo, contagem>>
    /\ opcao' = <<>>
    /\ UNCHANGED registrado

\* open(..., 'r') fails on a file that exists (PermissionError): not caught
Main_carregar_erro_io ==
    /\ Parado
    /\ arquivo.kind # "absent"
    /\ pc' = "uncaught"
    /\ motivo' = "OSError@carregar_dados"
    /\ vagas' = {}
    /\ msg' = "traceback"
    /\ LimparLocais
    /\ UNCHANGED <<arquivo, contagem>>
    /\ opcao' = <<>>
    /\ UNCHANGED registrado

---------------------------------------------------------------------------
(* main, lines 116-132: the menu *)

\* texts typed at the menu prompt: the three options and some others
Opcoes == {<<"1">>, <<"2">>, <<"3">>, <<"4">>, <<" ", "1">>, <<>>}

\* lines 117-122: the called function has returned (its locals are gone), the
\* options are printed and the prompt waits
Main_menu ==
    /\ pc = "loop"
    /\ pc' = "menu"
    /\ msg' = "opcoes"
    /\ LimparLocais
    /\ UNCHANGED <<motivo, vagas, arquivo, contagem>>
    /\ opcao' = <<>>
    /\ UNCHANGED registrado

\* variant: blanks around the option typed are ignored
Main_opcao_strip ==
    /\ pc = "menu"
    /\ opcao' \in Opcoes
    /\ pc' = CASE strip(opcao') = <<"1">> -> "entrada"
               [] strip(opcao') = <<"2">> -> "saida"
               [] strip(opcao') = <<"3">> -> "done"
               [] OTHER -> "loop"
    /\ msg' = CASE strip(opcao') = <<"3">> -> "ate_logo"
                [] strip(opcao') \in {<<"1">>, <<"2">>} -> "prompt_placa"
                [] OTHER -> "opcao_invalida"
    /\ motivo' = IF strip(opcao') = <<"3">> THEN "opcao3" ELSE "none"
    /\ UNCHANGED <<vagas, arquivo, contagem, locais, registrado>>

\* lines 122-132: the option typed is dispatched
Main_opcao ==
    /\ pc = "menu"
    /\ opcao' \in Opcoes
    /\ pc' = CASE opcao' = <<"1">> -> "entrada"
               [] opcao' = <<"2">> -> "saida"
               [] opcao' = <<"3">> -> "done"
               [] OTHER -> "loop"
    /\ msg' = CASE opcao' = <<"3">> -> "ate_logo"
                [] opcao' \in {<<"1">>, <<"2">>} -> "prompt_placa"
                [] OTHER -> "opcao_invalida"
    /\ motivo' = IF opcao' = <<"3">> THEN "opcao3" ELSE "none"
    /\ UNCHANGED <<vagas, arquivo, contagem, locais, registrado>>

---------------------------------------------------------------------------
(* salvar_dados, lines 35-43 *)

AposAbrir(p) == IF p = "entrada_abrir" THEN "entrada_gravar" ELSE "saida_gravar"
AposGravar(p) == IF p = "entrada_gravar" THEN "entrada_ticket" ELSE "saida_calcular"

\* line 42: open(ARQUIVO_DE_DADOS, 'w') truncates the file
Salvar_abrir ==
    /\ pc \in {"entrada_abrir", "saida_abrir"}
    /\ pc' = AposAbrir(pc)
    /\ arquivo' = Vazio
    /\ UNCHANGED <<motivo, vagas, contagem, msg, locais>>
    /\ UNCHANGED <<opcao, registrado>>

\* line 42: open raises OSError, which nothing catches
Salvar_abrir_erro ==
    /\ pc \in {"entrada_abrir", "saida_abrir"}
    /\ pc' = "uncaught"
    /\ motivo' = "OSError@salvar_dados"
    /\ msg' = "traceback"
    /\ UNCHANGED <<vagas, arquivo, contagem, locais>>
    /\ UNCHANGED <<opcao, registrado>>

\* line 43: json.dump writes the whole dict and the file is closed
Salvar_gravar ==
    /\ pc \in {"entrada_gravar", "saida_gravar"}
    /\ pc' = AposGravar(pc)
    /\ arquivo' = Objeto(dados_para_salvar(vagas))
    /\ UNCHANGED <<motivo, vagas, contagem, msg, locais>>
    /\ UNCHANGED <<opcao, registrado>>

\* variant: the write error is swallowed and the menu comes back
Salvar_gravar_erro_engolido ==
    /\ pc \in {"entrada_gravar", "saida_gravar"}
    /\ pc' = "loop"
    /\ msg' = "erro_ao_salvar"
    /\ arquivo' \in {Vazio, Parcial}
    /\ UNCHANGED <<motivo, vagas, contagem, locais>>
    /\ UNCHANGED <<opcao, registrado>>

\* line 43: a write raises OSError (disk full), which nothing catches
Salvar_gravar_erro ==
    /\ pc \in {"entrada_gravar", "saida_gravar"}
    /\ pc' = "uncaught"
    /\ motivo' = "OSError@salvar_dados"
    /\ msg' = "traceback"
    /\ arquivo' \in {Vazio, Parcial}
    /\ UNCHANGED <<vagas, contagem, locais>>
    /\ UNCHANGED <<opcao, registrado>>

---------------------------------------------------------------------------
(* registrar_entrada, lines 61-77 *)

\* line 63
Entrada_input ==
    /\ pc = "entrada"
    /\ \E s \in Textos :
         /\ Cardinality(vagas) < MaxVagas \/ Normalizar(s) \in Chaves(vagas) \cup {<<>>}
         /\ digitado' = s
         /\ placa' = Normalizar(s)
    /\ pc' = "entrada_verificar"
    /\ UNCHANGED <<motivo, vagas, arquivo, contagem, msg, hora_entrada,
                   hora_saida, duracao, horas_cobradas, valor_a_pagar>>
    /\ UNCHANGED <<opcao, registrado>>

\* lines 65-67
Entrada_placa_invalida ==
    /\ pc = "entrada_verificar"
    /\ placa = <<>>
    /\ pc' = "loop"
    /\ msg' = "placa_invalida"
    /\ UNCHANGED <<motivo, vagas, arquivo, contagem, locais>>
    /\ UNCHANGED <<opcao, registrado>>

\* variant: a refused entry renews the entry time of the open session
Entrada_ja_estacionado_renova ==
    /\ pc = "entrada_verificar"
    /\ placa # <<>>
    /\ Contem(vagas, placa)
    /\ pc' = "loop"
    /\ msg' = "ja_estacionado"
    /\ \E agora \in Leituras : vagas' = DictSet(vagas, placa, agora)
    /\ UNCHANGED <<motivo, arquivo, contagem, locais>>
    /\ UNCHANGED <<opcao, registrado>>

\* lines 69-70
Entrada_ja_estacionado ==
    /\ pc = "entrada_verificar"
    /\ placa # <<>>
    /\ Contem(vagas, placa)
    /\ pc' = "loop"
    /\ msg' = "ja_estacionado"
    /\ UNCHANGED <<motivo, vagas, arquivo, contagem, locais>>
    /\ UNCHANGED <<opcao, registrado>>

\* variant: the session is inserted and salvar_dados is not called
Entrada_registrar_sem_salvar ==
    /\ pc = "entrada_verificar"
    /\ placa # <<>>
    /\ ~Contem(vagas, placa)
    /\ \E agora \in Leituras :
         /\ vagas' = DictSet(vagas, placa, agora)
         /\ registrado' = DictSet(registrado, placa, agora)
    /\ UNCHANGED opcao
    /\ pc' = "entrada_ticket"
    /\ digitado' = <<>>
    /\ UNCHANGED <<motivo, arquivo, contagem, msg, placa, hora_entrada,
                   hora_saida, duracao, horas_cobradas, valor_a_pagar>>

\* lines 71-72; line 73 is Salvar_abrir and Salvar_gravar
Entrada_registrar ==
    /\ pc = "entrada_verificar"
    /\ placa # <<>>
    /\ ~Contem(vagas, placa)
    /\ \E agora \in Leituras :
         /\ vagas' = DictSet(vagas, placa, agora)
         /\ registrado' = DictSet(registrado, placa, agora)
    /\ UNCHANGED opcao
    /\ pc' = "entrada_abrir"
    /\ digitado' = <<>>
    /\ UNCHANGED <<motivo, arquivo, contagem, msg, placa, hora_entrada,
                   hora_saida, duracao, horas_cobradas, valor_a_pagar>>

\* variant: a failed ticket takes the session out of the registry again
Entrada_ticket_desfaz ==
    /\ pc = "entrada_ticket"
    /\ pc' = "loop"
    /\ \/ msg' = "ticket_gerado" /\ vagas' = vagas
       \/ msg' = "erro_no_ticket" /\ vagas' = DictPop(vagas, placa)
    /\ UNCHANGED <<motivo, arquivo, contagem, locais>>
    /\ UNCHANGED <<opcao, registrado>>

\* lines 74-77, with gerar_ticket (lines 48-59), which catches every Exception
Entrada_ticket ==
    /\ pc = "entrada_ticket"
    /\ pc' = "loop"
    /\ msg' \in {"ticket_gerado", "erro_no_ticket"}
    /\ UNCHANGED <<motivo, vagas, arquivo, contagem, locais>>
    /\ UNCHANGED <<opcao, registrado>>

---------------------------------------------------------------------------
(* registrar_saida, lines 79-105 *)

\* line 81
Saida_input ==
    /\ pc = "saida"
    /\ \E s \in Textos :
         /\ digitado' = s
         /\ placa' = Normalizar(s)
    /\ pc' = "saida_verificar"
    /\ UNCHANGED <<motivo, vagas, arquivo, contagem, msg, hora_entrada,
                   hora_saida, duracao, horas_cobradas, valor_a_pagar>>
    /\ UNCHANGED <<opcao, registrado>>

\* variant: the file is rewritten although nothing was removed
Saida_nao_encontrado_regrava ==
    /\ pc = "saida_verificar"
    /\ ~Contem(vagas, placa)
    /\ pc' = "loop"
    /\ msg' = "nao_encontrado"
    /\ arquivo' = Objeto(dados_para_salvar(vagas))
    /\ UNCHANGED <<motivo, vagas, contagem, locais>>
    /\ UNCHANGED <<opcao, registrado>>

\* lines 104-105
Saida_nao_encontrado ==
    /\ pc = "saida_verificar"
    /\ ~Contem(vagas, placa)
    /\ pc' = "loop"
    /\ msg' = "nao_encontrado"
    /\ UNCHANGED <<motivo, vagas, arquivo, contagem, locais>>
    /\ UNCHANGED <<opcao, registrado>>

\* variant: the removal is not saved before the receipt
Saida_remover_sem_salvar ==
    /\ pc = "saida_verificar"
    /\ Contem(vagas, placa)
    /\ hora_entrada' = Valor(vagas, placa)
    /\ vagas' = DictPop(vagas, placa)
    /\ pc' = "saida_calcular"
    /\ digitado' = <<>>
    /\ UNCHANGED <<motivo, arquivo, contagem, msg, placa,
                   hora_saida, duracao, horas_cobradas, valor_a_pagar>>
    /\ UNCHANGED <<opcao, registrado>>

\* lines 83-84; line 85 is Salvar_abrir and Salvar_gravar
Saida_remover ==
    /\ pc = "saida_verificar"
    /\ Contem(vagas, placa)
    /\ hora_entrada' = Valor(vagas, placa)
    /\ vagas' = DictPop(vagas, placa)
    /\ pc' = "saida_abrir"
    /\ digitado' = <<>>
    /\ UNCHANGED <<motivo, arquivo, contagem, msg, placa,
                   hora_saida, duracao, horas_cobradas, valor_a_pagar>>
    /\ UNCHANGED <<opcao, registrado>>

\* lines 86-103: the exit time, the fee and the receipt
Saida_calcular ==
    /\ pc = "saida_calcular"
    /\ \E agora \in Leituras :
         /\ hora_saida' = agora
         /\ duracao' = Subtrair(agora, hora_entrada)
         /\ horas_cobradas' = HorasCobradas(Subtrair(agora, hora_entrada))
         /\ valor_a_pagar' =
                ValorAPagar(HorasCobradas(Subtrair(agora, hora_entrada)))
    /\ pc' = "loop"
    /\ msg' = "recibo"
    /\ UNCHANGED <<motivo, vagas, arquivo, contagem, digitado, placa,
                   hora_entrada>>
    /\ registrado' = DictPop(registrado, placa)
    /\ UNCHANGED opcao

---------------------------------------------------------------------------
(* The process is killed (power loss, SIGKILL) *)

Kill ==
    /\ ~Parado
    /\ pc' = "killed"
    /\ motivo' = pc
    /\ arquivo' \in IF pc \in {"entrada_gravar", "saida_gravar"}
                    THEN {Vazio, Parcial} ELSE {arquivo}
    /\ UNCHANGED <<vagas, contagem, msg, locais>>
    /\ UNCHANGED <<opcao, registrado>>

---------------------------------------------------------------------------

Next ==
    \/ Main_carregar
    \/ Main_carregar_excecao
    \/ Main_carregar_erro_io
    \/ Main_menu
    \/ Main_opcao
    \/ Salvar_abrir
    \/ Salvar_abrir_erro
    \/ Salvar_gravar
    \/ Salvar_gravar_erro
    \/ Entrada_input
    \/ Entrada_placa_invalida
    \/ Entrada_ja_estacionado
    \/ Entrada_registrar
    \/ Entrada_ticket
    \/ Saida_input
    \/ Saida_nao_encontrado
    \/ Saida_remover
    \/ Saida_calcular
    \/ Kill

Spec == Init /\ [][Next]_vars

---------------------------------------------------------------------------
(* Fee computation alone: a session of any whole-second entry time between *)
(* midnight and the last clock reading has just been removed and saved.    *)

UltimaLeitura == 12 * SegundosPorHora + 900

InitTarifa ==
    /\ pc = "saida_calcular"
    /\ motivo = "none"
    /\ vagas = {}
    /\ arquivo = Objeto({})
    /\ contagem = 1
    /\ msg = "prompt_placa"
    /\ digitado = <<>>
    /\ placa = <<"A">>
    /\ hora_entrada \in {[seg |-> s, us |-> 0] : s \in 0..UltimaLeitura}
    /\ hora_saida = SemHora
    /\ duracao = [seg |-> 0, us |-> 0]
    /\ horas_cobradas = 0
    /\ valor_a_pagar = 0
    /\ opcao = <<"2">>
    /\ registrado = {<<placa, hora_entrada>>}

NextTarifa ==
    \/ Saida_calcular
    \/ Main_menu

SpecTarifa == InitTarifa /\ [][NextTarifa]_vars

---------------------------------------------------------------------------
(* Save and load alone: salvar_dados is called with any registry of at    *)
(* most MaxRegistros sessions, whatever its keys, the process stops and    *)
(* is started again.                                                       *)

\* timestamps a registry can hold: the clock readings, 00:00:00 of day 0 and
\* 23:59:59.999999 of day 1
Instantes ==
    Leituras \cup { [seg |-> 0, us |-> 0],
                    [seg |-> 2 * SegundosPorDia - 1, us |-> UsPorSegundo - 1] }

\* the dict with the keys ks and, key by key, the values ts
RegistroDe(ks, ts) == { <<ks[i], ts[i]>> : i \in DOMAIN ks }

InitIdaEVolta ==
    /\ motivo = "none"
    /\ \E n \in 0..MaxRegistros :
         \E ks \in [1..n -> Textos] :
            \E ts \in [1..n -> Instantes] :
               /\ \A i, j \in 1..n : i # j => ks[i] # ks[j]
               /\ vagas = RegistroDe(ks, ts)
    /\ arquivo = Ausente
    /\ contagem = 0
    /\ msg = "prompt_placa"
    /\ digitado = <<>>
    /\ hora_saida = SemHora
    /\ duracao = [seg |-> 0, us |-> 0]
    /\ horas_cobradas = 0
    /\ valor_a_pagar = 0
    /\ \/ /\ pc = "entrada_abrir"
          /\ opcao = <<"1">>
          /\ placa \in Chaves(vagas)
          /\ hora_entrada = SemHora
          /\ registrado = vagas
       \/ /\ pc = "saida_abrir"
          /\ opcao = <<"2">>
          /\ placa = <<"A">>
          /\ placa \notin Chaves(vagas)
          /\ hora_entrada = [seg |-> 0, us |-> 0]
          /\ registrado = vagas \cup {<<placa, hora_entrada>>}

NextIdaEVolta ==
    \/ Salvar_abrir
    \/ Salvar_gravar
    \/ Kill
    \/ Main_carregar

SpecIdaEVolta == InitIdaEVolta /\ [][NextIdaEVolta]_vars

---------------------------------------------------------------------------
(* Properties *)

\* the registry a reader of the file gets: plate -> timestamp, nothing when the
\* file is absent or is not a JSON object
Persistido ==
    IF arquivo.kind = "map"
    THEN {<<p[1], fromisoformat(p[2])>> : p \in arquivo.data}
    ELSE {}

MesmoRegistro(a, b) ==
    /\ Chaves(a) = Chaves(b)
    /\ \A p \in a : \A q \in b : p[1] = q[1] => p[2] = q[2]

\* C1: whenever the menu waits for the next choice, the file holds exactly the
\* sessions of the in-memory registry (same plates, same entry times), and
\* right after a completed save the file is the JSON object of the registry
\* (no entries when the registry is empty).
C1_ArquivoIgualAoRegistro ==
    /\ pc \in {"menu", "loop"} => MesmoRegistro(Persistido, vagas)
    /\ pc \in {"entrada_ticket", "saida_calcular"} =>
          /\ arquivo.kind = "map"
          /\ Chaves(arquivo.data) = Chaves(vagas)
          /\ MesmoRegistro(Persistido, vagas)

\* C1 witness: the menu waits after an entry of plate A at 12:15:00 was saved
C1_Witness ==
    /\ pc = "menu"
    /\ vagas = {<< <<"A">>, [seg |-> UltimaLeitura, us |-> 0] >>}
    /\ arquivo = Objeto({<< <<"A">>, <<0, 12, 15, 0>> >>})

\* C2: an entry whose typed plate, uppercased and trimmed, is the plate of an
\* open session fails: the registry and the file stay as they are and the
\* duplicate is reported.
C2_EntradaDuplicadaFalha ==
    [][ ( /\ pc = "entrada_verificar"
          /\ strip(upper(digitado)) \in Chaves(vagas)
          /\ pc' # "killed" )
        => ( /\ pc' = "loop"
             /\ msg' = "ja_estacionado"
             /\ vagas' = vagas
             /\ Cardinality(vagas') = Cardinality(vagas)
             /\ arquivo' = arquivo ) ]_vars

\* C2 witness: a duplicate was refused although the text typed differs from
\* the stored plate in case and surrounding whitespace
C2_Witness ==
    /\ pc = "loop"
    /\ msg = "ja_estacionado"
    /\ digitado = <<" ", "a">>
    /\ <<"A">> \in Chaves(vagas)

\* C3: an exit whose typed plate, uppercased and trimmed, has no open session
\* is reported as not found; registry and file stay as they are and no fee or
\* receipt is produced.
C3_SaidaDesconhecidaFalha ==
    [][ ( /\ pc = "saida_verificar"
          /\ strip(upper(digitado)) \notin Chaves(vagas)
          /\ pc' # "killed" )
        => ( /\ pc' = "loop"
             /\ msg' = "nao_encontrado"
             /\ vagas' = vagas
             /\ arquivo' = arquivo
             /\ hora_entrada' = SemHora
             /\ hora_saida' = SemHora
             /\ horas_cobradas' = 0
             /\ valor_a_pagar' = 0 ) ]_vars

\* C3 witness: an exit was refused for plate AA, which is not parked, while no
\* file has been written yet
C3_Witness ==
    /\ pc = "loop"
    /\ msg = "nao_encontrado"
    /\ placa = <<"A", "A">>
    /\ arquivo.kind # "map"

\* C4: the registry never holds two sessions under one plate; a successful
\* entry adds exactly one session, for a plate that had none, and a successful
\* exit removes exactly the session of the plate typed.
C4_UmaSessaoPorPlaca ==
    /\ [](UmaPorChave(vagas))
    /\ [][ (pc = "entrada_verificar" /\ pc' = "entrada_abrir")
           => \E s \in vagas' :
                 /\ s[1] = placa
                 /\ s[1] \notin Chaves(vagas)
                 /\ vagas' = vagas \cup {s}
                 /\ Cardinality(vagas') = Cardinality(vagas) + 1 ]_vars
    /\ [][ (pc = "saida_verificar" /\ pc' = "saida_abrir")
           => \E s \in vagas :
                 /\ s[1] = placa
                 /\ vagas' = vagas \ {s}
                 /\ Cardinality(vagas') = Cardinality(vagas) - 1
                 /\ hora_entrada' = s[2] ]_vars

\* C4 witness: of two parked plates one has just been removed
C4_Witness ==
    /\ pc = "saida_abrir"
    /\ placa = <<"A">>
    /\ Chaves(vagas) = {<<"A", "A">>}

\* C5: a start after the operator left through option 3, or after the process
\* was stopped at the menu prompt, rebuilds the registry the stopped process
\* held and reports its size.
C5_RegistroSobreviveAoReinicio ==
    [][ ( /\ pc = "done" \/ (pc = "killed" /\ motivo = "menu")
          /\ pc' = "loop" )
        => ( /\ MesmoRegistro(vagas', vagas)
             /\ vagas' = vagas
             /\ contagem' = Cardinality(vagas)
             /\ msg' = IF arquivo.kind = "map" THEN "carregados"
                       ELSE IF arquivo.kind = "absent" THEN "nenhum_arquivo"
                       ELSE "erro_ao_ler" ) ]_vars

\* C5 witness: two sessions entered in an earlier run, one of them with
\* microseconds, are back after a start
C5_Witness ==
    /\ pc = "loop"
    /\ msg = "carregados"
    /\ contagem = 2
    /\ << <<"A", "A">>, [seg |-> 11 * SegundosPorHora, us |-> 1] >> \in vagas
    /\ << <<"A">>, [seg |-> UltimaLeitura, us |-> 0] >> \in vagas

\* the save of an entry or an exit is under way, or the process stopped in it
Salvando ==
    LET passos == {"entrada_abrir", "entrada_gravar", "saida_abrir", "saida_gravar"}
    IN  \/ pc \in passos
        \/ pc = "killed" /\ motivo \in passos
        \/ pc = "uncaught" /\ motivo = "OSError@salvar_dados"

\* the registry before the mutation that is being saved
RegistroAntes ==
    IF hora_entrada = SemHora
    THEN DictPop(vagas, placa)
    ELSE vagas \cup {<<placa, hora_entrada>>}

\* C6: at every step of a save, a crash in it included, what a reader gets
\* from the file is the complete registry of before the mutation or the
\* complete registry of after it, never the nothing of an empty or truncated
\* file.
C6_SalvarAtomico ==
    Salvando =>
        \/ MesmoRegistro(Persistido, RegistroAntes)
        \/ MesmoRegistro(Persistido, vagas)

\* C7: once the process runs, no step ends it with an uncaught exception
\* (a consequence of "no operation throws uncaught").
C7_NenhumaExcecaoNaoTratada ==
    [][ ~Parado => pc' # "uncaught" ]_vars

\* whether datetime a is earlier than datetime b
Antes(a, b) == a.seg < b.seg \/ (a.seg = b.seg /\ a.us < b.us)

\* C8: on every receipt the duration is max(0, exit - entry), so the billable
\* hours are at least 1 and the amount due at least one hour's charge.
C8_DuracaoNaoNegativa ==
    (pc = "loop" /\ msg = "recibo") =>
        /\ duracao = IF Antes(hora_saida, hora_entrada)
                     THEN [seg |-> 0, us |-> 0]
                     ELSE Subtrair(hora_saida, hora_entrada)
        /\ horas_cobradas >= 1
        /\ valor_a_pagar >= PRECO_POR_HORA

\* C9: for a whole-second duration d >= 0 the billable hours are the least
\* h >= 1 with h * 3600 >= d: 1 for d = 0 and for d in 1..3600, 2 for d = 3601.
C9_HorasCobradas ==
    ( /\ pc = "loop"
      /\ msg = "recibo"
      /\ hora_entrada.us = 0
      /\ hora_saida.us = 0
      /\ hora_saida.seg >= hora_entrada.seg )
    => LET d == hora_saida.seg - hora_entrada.seg
           h == horas_cobradas
       IN  /\ h >= 1
           /\ h * 3600 >= d
           /\ h > 1 => (h - 1) * 3600 < d
           /\ d = 0 => h = 1
           /\ d \in 1..3600 => h = 1
           /\ d = 3601 => h = 2

\* C9 witness: a receipt for a stay of 3601 seconds charges 2 hours
C9_Witness ==
    /\ pc = "loop"
    /\ msg = "recibo"
    /\ hora_entrada.us = 0
    /\ hora_saida.us = 0
    /\ hora_saida.seg - hora_entrada.seg = 3601
    /\ horas_cobradas = 2

\* C10: on every receipt the amount due is the billable hours times the
\* hourly rate; an entry at 10:00:00 and an exit at 12:15:00 at 5.00 per hour
\* give 3 hours and 15.00.
C10_ValorAPagar ==
    (pc = "loop" /\ msg = "recibo") =>
        /\ valor_a_pagar = horas_cobradas * 5
        /\ ( /\ hora_entrada = [seg |-> 10 * 3600, us |-> 0]
             /\ hora_saida = [seg |-> 12 * 3600 + 15 * 60, us |-> 0] )
           => (horas_cobradas = 3 /\ valor_a_pagar = 15)

\* C10 witness: the receipt of the entry at 10:00:00 left at 12:15:00
C10_Witness ==
    /\ pc = "loop"
    /\ msg = "recibo"
    /\ hora_entrada = [seg |-> 10 * 3600, us |-> 0]
    /\ hora_saida = [seg |-> 12 * 3600 + 15 * 60, us |-> 0]
    /\ horas_cobradas = 3
    /\ valor_a_pagar = 15
    /\ placa \notin Chaves(vagas)
    /\ arquivo = Objeto(dados_para_salvar(vagas))

\* the process was stopped right after salvar_dados returned
ParadoAposSalvar ==
    pc = "killed" /\ motivo \in {"entrada_ticket", "saida_calcular"}

\* C11: for any registry, a load of the file a completed save wrote does not
\* raise and gives back the registry, key for key and timestamp for timestamp.
C11_IdaEVolta ==
    /\ [](ParadoAposSalvar =>
            /\ arquivo.kind = "map"
            /\ \A p \in arquivo.data : IsoValido(p[2]))
    /\ [][ (ParadoAposSalvar /\ pc' = "loop")
           => ( /\ Chaves(vagas') = Chaves(vagas)
                /\ \A p \in vagas' : \A q \in vagas : p[1] = q[1] => p[2] = q[2]
                /\ vagas' = vagas ) ]_vars

\* C11 witness: a registry whose only key is " a", entered at 23:59:59.999999
\* of day 1, is back after save, stop and start
C11_Witness ==
    /\ pc = "loop"
    /\ msg = "carregados"
    /\ vagas = {<< <<" ", "a">>,
                   [seg |-> 2 * SegundosPorDia - 1, us |-> UsPorSegundo - 1] >>}
    /\ arquivo = Objeto({<< <<" ", "a">>, <<1, 23, 59, 59, 999999>> >>})

\* C12: a start that finds no file, or a file whose content is not the
\* serialized mapping, gets an empty registry from the load without an
\* exception and goes on to the menu with zero sessions.
C12_CargaSemArquivoOuMalformado ==
    [][ ( /\ Parado
          /\ arquivo.kind # "map"
          /\ motivo' # "OSError@carregar_dados" )
        => ( /\ pc' = "loop"
             /\ vagas' = {}
             /\ contagem' = 0 ) ]_vars

\* C13: a start that finds a well-formed mapping in which one timestamp text
\* cannot be parsed still reaches the menu loop: the load raises nothing.
C13_CargaComHoraInvalida ==
    [][ ( /\ Parado
          /\ arquivo.kind = "map"
          /\ \E p \in arquivo.data : p[2] = <<0, 25, 0, 0>>
          /\ motivo' # "OSError@carregar_dados" )
        => ( /\ pc' = "loop"
             /\ motivo' = "none" ) ]_vars

\* C14: after a successful entry of plate p, whether the ticket was issued or
\* its issuance failed, p is in the registry and in the file with its entry
\* time, and the ticket step itself changes neither and raises nothing.
C14_TicketNaoDesfazEntrada ==
    /\ []( (pc = "loop" /\ msg \in {"ticket_gerado", "erro_no_ticket"})
           => /\ arquivo.kind = "map"
              /\ \E s \in vagas :
                    /\ s[1] = placa
                    /\ s \in Persistido
                    /\ s \in registrado )
    /\ [][ (pc = "entrada_ticket" /\ pc' # "killed")
           => ( /\ pc' = "loop"
                /\ msg' \in {"ticket_gerado", "erro_no_ticket"}
                /\ vagas' = vagas
                /\ arquivo' = arquivo ) ]_vars

\* C14 witness: the ticket of plate AA failed and AA is parked and on file
C14_Witness ==
    /\ pc = "loop"
    /\ msg = "erro_no_ticket"
    /\ placa = <<"A", "A">>
    /\ placa \in Chaves(vagas)
    /\ placa \in Chaves(Persistido)

\* C15: the entry time of an open session never changes: every session of
\* the registry carries the time recorded at its entry, that time stays the
\* same across every step and every restart for as long as the session is
\* open, and the exit computes the fee from exactly that time.
C15_HoraDeEntradaImutavel ==
    /\ [](UmaPorChave(registrado) /\ vagas \subseteq registrado)
    /\ [][ \A s \in registrado :
              s[1] \in Chaves(registrado') => s \in registrado' ]_vars
    /\ [][ (pc = "saida_calcular" /\ pc' = "loop")
           => ( /\ <<placa, hora_entrada>> \in registrado
                /\ duracao' = Subtrair(hora_saida', hora_entrada) ) ]_vars

\* C15 witness: AA, entered in an earlier run at 11:00:00.000001 and read
\* back from a file of two sessions, has left and got its receipt
C15_Witness ==
    /\ pc = "loop"
    /\ msg = "recibo"
    /\ placa = <<"A", "A">>
    /\ contagem = 2
    /\ hora_entrada = [seg |-> 11 * SegundosPorHora, us |-> 1]
    /\ duracao = Subtrair(hora_saida, hora_entrada)

\* C16: a text typed at the menu that is none of "1", "2", "3" is answered
\* with the invalid-option message, leaves the registry and the file as
\* they were, and the next step of the program is the menu prompt again.
C16_OpcaoInvalida ==
    /\ [][ (pc = "menu" /\ pc' # "killed"
            /\ opcao' \notin {<<"1">>, <<"2">>, <<"3">>})
           => ( /\ pc' = "loop"
                /\ msg' = "opcao_invalida"
                /\ vagas' = vagas
                /\ arquivo' = arquivo ) ]_vars
    /\ [][ (pc = "loop" /\ msg = "opcao_invalida" /\ pc' # "killed")
           => ( /\ pc' = "menu"
                /\ vagas' = vagas
                /\ arquivo' = arquivo ) ]_vars

\* C16 witness: " 1" was typed with a car parked, and was refused
C16_Witness ==
    /\ pc = "loop"
    /\ opcao = <<" ", "1">>
    /\ msg = "opcao_invalida"
    /\ vagas # {}
    /\ arquivo.kind = "map"

\* C17: in every reachable state, every key of the registry is a normalized
\* plate: non-empty and equal to its own uppercased and trimmed form; this
\* includes the registry read at startup from any file that the load accepts.
C17_ChavesNormalizadas ==
    \A k \in Chaves(vagas) : k # <<>> /\ strip(upper(k)) = k

\* the save of an accepted entry or exit is under way
Pendente == {"entrada_abrir", "entrada_gravar", "saida_abrir", "saida_gravar"}

\* C18: a running program changes the registry only as the first step of an
\* entry or exit whose save follows at once; while that save is under way
\* control never reaches the menu; the save ends either with the file
\* holding exactly the mutated registry, after which the registry and the
\* file stay as they are until the menu, or, on a write error, with the
\* program stopped by the exception, never with the menu.
C18_MutacaoESalvamentoCompletos ==
    /\ [][ (~Parado /\ vagas' # vagas)
           => pc' \in {"entrada_abrir", "saida_abrir"} ]_vars
    /\ [][ (pc \in Pendente)
           => ( pc' \in Pendente
                \/ pc' \in {"entrada_ticket", "saida_calcular"}
                \/ pc' \in {"uncaught", "killed"} ) ]_vars
    /\ [][ (pc \in Pendente /\ pc' \in {"entrada_ticket", "saida_calcular"})
           => ( /\ vagas' = vagas
                /\ arquivo'.kind = "map"
                /\ Persistido' = vagas' ) ]_vars
    /\ [][ (pc \in {"entrada_ticket", "saida_calcular"} /\ pc' # "killed")
           => ( /\ pc' = "loop"
                /\ vagas' = vagas
                /\ arquivo' = arquivo ) ]_vars
    /\ []( motivo = "OSError@salvar_dados" => pc = "uncaught" )

\* C18 witness: the write of the save of an entry failed; the program has
\* stopped with the car in the registry and a truncated file
C18_Witness ==
    /\ pc = "uncaught"
    /\ motivo = "OSError@salvar_dados"
    /\ placa \in Chaves(vagas)
    /\ arquivo.kind = "partial"

\* C19: every session that has disappeared from the file through an exit
\* has had a receipt: when the program has stopped after an exit took the
\* entry time of a plate and the file was rewritten without that plate, the
\* receipt of that exit has been printed.
C19_RemovidoTemRecibo ==
    ( /\ Parado
      /\ hora_entrada # SemHora
      /\ arquivo.kind = "map"
      /\ placa \notin Chaves(arquivo.data) )
    => msg = "recibo"

\* C19, as amended: on exit the removal is saved before the exit time is
\* read and the fee computed: until the save has ended no exit time, no
\* duration and no fee exist, and every receipt is for a plate that is by
\* then neither in the registry nor in the file.
C19_ReciboAposRemocaoPersistida ==
    /\ []( pc \in {"saida_abrir", "saida_gravar", "saida_calcular"}
           => ( /\ hora_saida = SemHora
                /\ horas_cobradas = 0
                /\ valor_a_pagar = 0
                /\ msg # "recibo" ) )
    /\ [][ (pc = "saida_calcular" /\ pc' = "loop")
           => ( /\ arquivo.kind = "map"
                /\ placa \notin Chaves(arquivo.data)
                /\ placa \notin Chaves(vagas)
                /\ arquivo' = arquivo
                /\ msg' = "recibo"
                /\ hora_saida' \in Leituras ) ]_vars
    /\ []( msg = "recibo"
           => ( /\ arquivo.kind = "map"
                /\ placa \notin Chaves(arquivo.data)
                /\ placa \notin Chaves(vagas)
                /\ hora_entrada # SemHora
                /\ hora_saida # SemHora
                /\ valor_a_pagar = PRECO_POR_HORA * horas_cobradas ) )

\* C19 witness: AA has left, the file no longer holds it and its receipt is out
C19_Witness ==
    /\ pc = "loop"
    /\ msg = "recibo"
    /\ placa = <<"A", "A">>
    /\ arquivo.kind = "map"
    /\ placa \notin Chaves(arquivo.data)
    /\ valor_a_pagar = 2 * PRECO_POR_HORA

=============================================================================
